---- MODULE Spec2Model ----
(***************************************************************************)
(* Model of giskard/llm/generators/base.py: the LLM-driven dataset         *)
(* generator (_BaseLLMGenerator and LLMBasedDataGenerator).                 *)
(*                                                                         *)
(* Text is modelled as a sequence of pieces (strings); a completion's       *)
(* content is modelled as a sequence of JSON tokens, which json.loads      *)
(* parses into JSON values.  Temperatures are counted in tenths.           *)
(***************************************************************************)
EXTENDS Integers, Sequences, FiniteSets, TLC

VARIABLES
    args,       \* the arguments the generator was constructed with
    self,       \* the generator's attributes
    pc,         \* position of the current generate_dataset call
    calls,      \* generate_dataset calls started so far
    call,       \* the arguments of the current call
    messages,   \* the local variable messages
    requests,   \* the requests the current call has sent to llm_client.complete
    fault,      \* the exception llm_client.complete raised in this call, if any
    out,        \* the content of the completion
    generated,  \* the local variable generated
    dataset,    \* the dataset returned, if any
    error       \* the exception the call raised, if any

vars == <<args, self, pc, calls, call, messages, requests, fault, out, generated, dataset, error>>

(* ------------------------------ bounds -------------------------------- *)

\* generate_dataset calls made on the one generator instance
MaxCalls == 2
\* records in a generated array
MaxRecords == 2

(* --------------------------- JSON values ------------------------------ *)
\* Every JSON value has the same four fields: t is its kind, s the text of a
\* scalar, a the elements of an array or the values of an object, k the keys
\* of an object (in insertion order, as a Python dict keeps them).

JNull == [t |-> "null", s |-> "", a |-> <<>>, k |-> <<>>]
JBool(b) == [t |-> "bool", s |-> b, a |-> <<>>, k |-> <<>>]
JNum(n) == [t |-> "num", s |-> n, a |-> <<>>, k |-> <<>>]
JStr(x) == [t |-> "str", s |-> x, a |-> <<>>, k |-> <<>>]
JArr(elems) == [t |-> "arr", s |-> "", a |-> elems, k |-> <<>>]
JObj(keys, vals) == [t |-> "obj", s |-> "", a |-> vals, k |-> keys]

Range(f) == {f[i] : i \in DOMAIN f}

\* dict[key] = val : a repeated key keeps its first position and takes the
\* last value
DictSet(obj, key, val) ==
    IF key \in Range(obj.k)
    THEN LET i == CHOOSE j \in DOMAIN obj.k : obj.k[j] = key
         IN  [obj EXCEPT !.a[i] = val]
    ELSE [obj EXCEPT !.k = Append(obj.k, key), !.a = Append(obj.a, val)]

DictGet(obj, key) ==
    LET i == CHOOSE j \in DOMAIN obj.k : obj.k[j] = key IN obj.a[i]

(* --------------------------- JSON tokens ------------------------------ *)

Tok(kind, text) == [k |-> kind, s |-> text]
LBrace == Tok("punct", "{")
RBrace == Tok("punct", "}")
LBracket == Tok("punct", "[")
RBracket == Tok("punct", "]")
Colon == Tok("punct", ":")
Comma == Tok("punct", ",")

\* json.dumps: the text of a JSON value
RECURSIVE Dumps(_)
RECURSIVE DumpElems(_, _)
RECURSIVE DumpMembers(_, _, _)
DumpElems(elems, i) ==
    IF i > Len(elems) THEN <<>>
    ELSE (IF i > 1 THEN <<Comma>> ELSE <<>>) \o Dumps(elems[i]) \o DumpElems(elems, i + 1)
DumpMembers(keys, vals, i) ==
    IF i > Len(keys) THEN <<>>
    ELSE (IF i > 1 THEN <<Comma>> ELSE <<>>) \o <<Tok("str", keys[i]), Colon>>
         \o Dumps(vals[i]) \o DumpMembers(keys, vals, i + 1)
Dumps(v) ==
    CASE v.t = "null" -> <<Tok("lit", "null")>>
      [] v.t = "bool" -> <<Tok("lit", v.s)>>
      [] v.t = "num" -> <<Tok("num", v.s)>>
      [] v.t = "str" -> <<Tok("str", v.s)>>
      [] v.t = "arr" -> <<LBracket>> \o DumpElems(v.a, 1) \o <<RBracket>>
      [] v.t = "obj" -> <<LBrace>> \o DumpMembers(v.k, v.a, 1) \o <<RBrace>>

\* json.loads: a recursive-descent parse of the whole text.  A result is
\* [ok, val, next]: next is the position after the value.
ParseFail == [ok |-> FALSE, val |-> JNull, next |-> 0]
ParseOk(v, n) == [ok |-> TRUE, val |-> v, next |-> n]

RECURSIVE ParseValue(_, _)
RECURSIVE ParseElements(_, _, _)
RECURSIVE ParseMembers(_, _, _)
ParseElements(toks, i, acc) ==
    LET r == ParseValue(toks, i) IN
    IF ~r.ok \/ r.next > Len(toks) THEN ParseFail
    ELSE IF toks[r.next] = Comma THEN ParseElements(toks, r.next + 1, Append(acc, r.val))
    ELSE IF toks[r.next] = RBracket THEN ParseOk(JArr(Append(acc, r.val)), r.next + 1)
    ELSE ParseFail
ParseMembers(toks, i, acc) ==
    IF i + 2 > Len(toks) \/ toks[i].k # "str" \/ toks[i + 1] # Colon THEN ParseFail
    ELSE LET r == ParseValue(toks, i + 2) IN
         IF ~r.ok \/ r.next > Len(toks) THEN ParseFail
         ELSE IF toks[r.next] = Comma
              THEN ParseMembers(toks, r.next + 1, DictSet(acc, toks[i].s, r.val))
         ELSE IF toks[r.next] = RBrace
              THEN ParseOk(DictSet(acc, toks[i].s, r.val), r.next + 1)
         ELSE ParseFail
ParseValue(toks, i) ==
    IF i > Len(toks) THEN ParseFail
    ELSE LET tk == toks[i] IN
         CASE tk.k = "str" -> ParseOk(JStr(tk.s), i + 1)
           [] tk.k = "num" -> ParseOk(JNum(tk.s), i + 1)
           [] tk.k = "lit" -> ParseOk(IF tk.s = "null" THEN JNull ELSE JBool(tk.s), i + 1)
           [] tk = LBracket ->
                IF i + 1 <= Len(toks) /\ toks[i + 1] = RBracket
                THEN ParseOk(JArr(<<>>), i + 2)
                ELSE ParseElements(toks, i + 1, <<>>)
           [] tk = LBrace ->
                IF i + 1 <= Len(toks) /\ toks[i + 1] = RBrace
                THEN ParseOk(JObj(<<>>, <<>>), i + 2)
                ELSE ParseMembers(toks, i + 1, JObj(<<>>, <<>>))
           [] OTHER -> ParseFail

\* json.loads(content): the value, or JSONDecodeError (also on text left
\* over after the value)
Loads(content) ==
    LET r == ParseValue(content, 1) IN
    IF r.ok /\ r.next = Len(content) + 1 THEN r ELSE ParseFail

(* --------------------------- the generator ---------------------------- *)

\* _BaseLLMGenerator._default_temperature, in tenths
DefaultTemperature == 5
\* default of the llm_seed parameter
DefaultSeed == 1729
\* _BaseLLMGenerator._output_key
DefaultOutputKey == "inputs"

\* an optional argument: None, or a value
None(dflt) == [given |-> FALSE, v |-> dflt]
Some(x) == [given |-> TRUE, v |-> x]

\* Variant: "llm_temperature or self._default_temperature", which takes 0.0
\* for no temperature.
InitTemperatureOr(arg) == IF arg.given /\ arg.v # 0 THEN arg.v ELSE DefaultTemperature

\* llm_temperature if llm_temperature is not None else self._default_temperature
InitTemperature(arg) == IF arg.given THEN arg.v ELSE DefaultTemperature

\* languages or ["en"] : None and the empty sequence are both falsy
InitLanguages(arg) == IF arg.given /\ arg.v # <<>> THEN arg.v ELSE <<"en">>

\* prefix_messages or []
InitPrefixMessages(arg) == IF arg.given THEN arg.v ELSE <<>>

\* LLMBasedDataGenerator.__init__ over _BaseLLMGenerator.__init__ : cls is the
\* concrete class, with its name and its _output_key
NewGenerator(cls, prompt, prefix_messages, languages, llm_temperature, llm_seed) ==
    [ class |-> cls,
      languages |-> InitLanguages(languages),
      llm_temperature |-> InitTemperature(llm_temperature),
      llm_seed |-> IF llm_seed.given THEN llm_seed.v ELSE DefaultSeed,
      prompt |-> prompt,
      prefix_messages |-> InitPrefixMessages(prefix_messages) ]

(* ------------------------- prompt templates --------------------------- *)
\* A template is a sequence of segments: literal text, or a replacement
\* field {name} or {name.attr}.

Lit(text) == [kind |-> "lit", name |-> text, attr |-> ""]
Field(name, attr) == [kind |-> "field", name |-> name, attr |-> attr]

LANGUAGE_REQUIREMENT_PROMPT ==
    << Lit("You must generate input using different languages among the following list: "),
       Field("languages", ""), Lit(".") >>

DEFAULT_GENERATE_INPUTS_PROMPT ==
    << Lit("You are auditing an AI model. Your will generate inputs for the following model: "),
       Field("model_name", ""), Lit(" - "), Field("model_description", ""),
       Lit(". Model Features: "), Field("feature_names", ""),
       Lit(" You must generate "), Field("num_samples", ""), Lit(" inputs.") >>

\* ", ".join(languages)
RECURSIVE Join(_, _)
Join(langs, i) ==
    IF i > Len(langs) THEN <<>>
    ELSE (IF i > 1 THEN <<", ">> ELSE <<>>) \o <<langs[i]>> \o Join(langs, i + 1)

\* str.format(model=model, num_samples=num_samples, languages=...): the
\* rendered text, or the KeyError of the first field that has no value
FormatOk(text) == [err |-> "", text |-> text]
FormatErr(e) == [err |-> e, text |-> <<>>]

RECURSIVE Format(_, _, _, _, _)
Format(template, i, model, num_samples, languages) ==
    IF i > Len(template) THEN FormatOk(<<>>)
    ELSE LET seg == template[i]
             here == CASE seg.kind = "lit" -> FormatOk(<<seg.name>>)
                       [] seg.name = "num_samples" -> FormatOk(<<ToString(num_samples)>>)
                       [] seg.name = "languages" -> FormatOk(Join(languages, 1))
                       [] seg.name = "model" /\ seg.attr = "name" -> FormatOk(<<model.name>>)
                       [] seg.name = "model" /\ seg.attr = "description" ->
                            FormatOk(<<model.description>>)
                       [] OTHER -> FormatErr("KeyError")
             rest == Format(template, i + 1, model, num_samples, languages)
         IN  IF here.err # "" THEN here
             ELSE IF rest.err # "" THEN rest
             ELSE FormatOk(here.text \o rest.text)

ChatMessage(role, content) == [role |-> role, content |-> content]

\* Variant: the user message is appended to self.prefix_messages in place.
FormatMessagesAppending(gen, model, num_samples) ==
    LET prompt == Format(gen.prompt, 1, model, num_samples, gen.languages)
        msgs == gen.prefix_messages \o <<ChatMessage("user", prompt.text)>>
    IN  [ err |-> prompt.err,
          messages |-> IF prompt.err # "" THEN <<>> ELSE msgs,
          gen |-> IF prompt.err # "" THEN gen ELSE [gen EXCEPT !.prefix_messages = msgs] ]

\* Variant: a template that cannot be rendered is sent as an empty instruction.
FormatMessagesLenient(gen, model, num_samples) ==
    LET prompt == Format(gen.prompt, 1, model, num_samples, gen.languages) IN
    [ err |-> "",
      messages |-> gen.prefix_messages \o <<ChatMessage("user", prompt.text)>>,
      gen |-> gen ]

\* LLMBasedDataGenerator._format_messages: the messages of the request and
\* the generator afterwards, or the error str.format raised
FormatMessages(gen, model, num_samples) ==
    LET prompt == Format(gen.prompt, 1, model, num_samples, gen.languages) IN
    [ err |-> prompt.err,
      messages |-> IF prompt.err # "" THEN <<>>
                   ELSE gen.prefix_messages \o <<ChatMessage("user", prompt.text)>>,
      gen |-> gen ]

(* ------------------------- response parsing --------------------------- *)

NoError == [type |-> "", cause |-> "", origin |-> ""]
Raise(type, cause, origin) == [type |-> type, cause |-> cause, origin |-> origin]

\* _BaseLLMGenerator._parse_output: json.loads, then data[_output_key] when
\* the key is set.  JSONDecodeError and KeyError are caught and replaced by
\* LLMGenerationError (raise ... from err); subscripting a list, a string, a
\* number, a boolean or None with a string raises TypeError, which is not.
\* lines 95-97, the body of the try: what it evaluates to or raises
TryBody(key, content) ==
    LET r == Loads(content) IN
    IF ~r.ok THEN [raised |-> "JSONDecodeError", data |-> JNull]
    ELSE IF key = "" THEN [raised |-> "", data |-> r.val]
    ELSE IF r.val.t # "obj" THEN [raised |-> "TypeError", data |-> JNull]
    ELSE IF key \notin Range(r.val.k) THEN [raised |-> "KeyError", data |-> JNull]
    ELSE [raised |-> "", data |-> DictGet(r.val, key)]

\* lines 98-99, the except clause
Except(raised) ==
    IF raised \in {"JSONDecodeError", "KeyError"}
    THEN Raise("LLMGenerationError", raised, "parse")
    ELSE Raise(raised, "", "parse")

ParseOutput(gen, content) ==
    LET r == TryBody(gen.class.output_key, content) IN
    [err |-> IF r.raised = "" THEN NoError ELSE Except(r.raised), data |-> r.data]

(* -------------------------- dataset assembly -------------------------- *)

\* pd.DataFrame(generated): a list gives one row per element, None and {} an
\* empty frame, a dict of lists one row per position (scalars repeated), and
\* a scalar, a dict of scalars only, or lists of unequal length ValueError.
\* (The completions of this model hold no dict whose values are dicts.)
DataFrame(v) ==
    LET lens == {Len(v.a[j].a) : j \in {i \in DOMAIN v.a : v.a[i].t = "arr"}}
        n == CHOOSE m \in lens : TRUE
        cell(j, i) == IF v.a[j].t = "arr" THEN v.a[j].a[i] ELSE v.a[j]
    IN  CASE v.t = "arr" -> [err |-> "", rows |-> v.a]
          [] v.t = "null" -> [err |-> "", rows |-> <<>>]
          [] v.t = "obj" /\ v.k = <<>> -> [err |-> "", rows |-> <<>>]
          [] v.t = "obj" /\ v.k # <<>> /\ Cardinality(lens) = 1 ->
                [err |-> "",
                 rows |-> [i \in 1..n |-> JObj(v.k, [j \in DOMAIN v.a |-> cell(j, i)])]]
          [] OTHER -> [err |-> "ValueError", rows |-> <<>>]

\* Variant: a model without a name is named after its description.
MakeDatasetNameOrDescription(model) ==
    "Synthetic Test Dataset for " \o (IF model.name = "" THEN model.description ELSE model.name)

\* _BaseLLMGenerator._make_dataset_name
MakeDatasetName(model) == "Synthetic Test Dataset for " \o model.name

\* Dataset(df=pd.DataFrame(generated), name=..., validation=False,
\* column_types=column_types)
Dataset(rows, model, column_types) ==
    [ rows |-> rows, name |-> MakeDatasetName(model), validation |-> FALSE,
      column_types |-> column_types ]

\* the keyword arguments of llm_client.complete
Request(gen, msgs) ==
    [ messages |-> msgs, temperature |-> gen.llm_temperature,
      caller_id |-> gen.class.name, seed |-> gen.llm_seed, format |-> "json" ]

(* ------------------------------ inputs -------------------------------- *)

Classes ==
    { [name |-> "LLMBasedDataGenerator", output_key |-> DefaultOutputKey],
      [name |-> "SamplesGenerator", output_key |-> "samples"],
      [name |-> "RawGenerator", output_key |-> ""] }

Base == << Lit("Generate "), Field("num_samples", ""), Lit(" inputs for "),
           Field("model", "name"), Lit(".") >>

Prompts ==
    { Base,
      Base \o <<Lit(" Languages: "), Field("languages", "")>>,
      DEFAULT_GENERATE_INPUTS_PROMPT }

System == ChatMessage("system", <<"You are a tester.">>)
Assistant == ChatMessage("assistant", <<"Understood.">>)

PrefixArgs == { None(<<>>), Some(<<System, Assistant>>) }
LanguageArgs == { None(<<>>), Some(<<>>), Some(<<"fr">>), Some(<<"en", "fr">>) }
\* llm_temperature and llm_seed: both omitted, one given, both given
SamplingArgs ==
    { [llm_temperature |-> None(0), llm_seed |-> None(0)],
      [llm_temperature |-> Some(0), llm_seed |-> Some(0)],
      [llm_temperature |-> Some(7), llm_seed |-> None(0)],
      [llm_temperature |-> None(0), llm_seed |-> Some(42)] }

Models ==
    { [name |-> "", description |-> "unnamed"],
      [name |-> "Loan Approval", description |-> "Predicts loan approval"] }
NumSamples == {1, 3}
ColumnTypes == { None(<<>>), Some(<<"numeric", "numeric">>) }

R1 == JObj(<<"income", "age">>, <<JNum("50000"), JNum("30")>>)
R2 == JObj(<<"income", "age">>, <<JNum("72000"), JStr("45")>>)
Records == {R1, R2}
RecordSeqs == UNION {[1..n -> Records] : n \in 0..MaxRecords}
Keys == {DefaultOutputKey, "samples"}

\* {"<key>": [r1, ..., rk]}
Keyed(key, rs) == Dumps(JObj(<<key>>, <<JArr(rs)>>))

\* well-formed JSON texts
WellFormed ==
    {Keyed(DefaultOutputKey, rs) : rs \in RecordSeqs}
    \cup {Keyed("samples", rs) : rs \in {<<>>, <<R1>>, <<R2, R1>>}}
    \cup {Dumps(JArr(rs)) : rs \in {<<>>, <<R1, R2>>}}
    \cup {Dumps(v) : v \in {JNull, JBool("true"), JNum("5"), JStr("inputs"), JObj(<<>>, <<>>)}}
    \cup {Dumps(JObj(<<key>>, <<v>>)) : key \in Keys, v \in {JNull, JNum("5")}}
    \cup {Dumps(JObj(<<"data", "inputs">>, <<JArr(<<>>), JArr(<<R1>>)>>)),
          Dumps(JObj(<<"data">>, <<JArr(<<>>)>>)),
          <<LBrace, Tok("str", "inputs"), Colon>> \o Dumps(JArr(<<R1>>)) \o
          <<Comma, Tok("str", "inputs"), Colon>> \o Dumps(JArr(<<R2>>)) \o <<RBrace>>}

\* texts json.loads rejects
Malformed ==
    { <<>>,
      <<Tok("bad", "not"), Tok("bad", "json")>>,
      <<LBrace, Tok("str", "inputs"), Colon, LBracket>>,
      <<LBrace, Tok("str", "inputs"), Colon, LBracket>> \o Dumps(R1) \o <<Comma, RBracket, RBrace>>,
      Keyed("inputs", <<R1>>) \o <<Tok("bad", "thanks")>>,
      <<LBrace, Tok("bad", "inputs"), Colon, LBracket, RBracket, RBrace>> }

Contents == WellFormed \cup Malformed

ClientErrors == {"ConnectionError", "KeyError"}

(* --------------------------- state machine ---------------------------- *)
\* pc is the position of the current generate_dataset call:
\*   idle -> format -> complete -> parse -> dataset -> returned, or raised

NoCall == [model |-> [name |-> "", description |-> ""], num_samples |-> 0,
           column_types |-> None(<<>>)]

Init ==
    /\ \E cls \in Classes, p \in Prompts, pm \in PrefixArgs, l \in LanguageArgs,
          s \in SamplingArgs :
          /\ args = [class |-> cls, prompt |-> p, prefix_messages |-> pm, languages |-> l,
                     llm_temperature |-> s.llm_temperature, llm_seed |-> s.llm_seed]
          /\ self = NewGenerator(cls, p, pm, l, s.llm_temperature, s.llm_seed)
    /\ pc = "idle"
    /\ calls = 0
    /\ call = NoCall
    /\ messages = <<>>
    /\ requests = <<>>
    /\ fault = ""
    /\ out = <<>>
    /\ generated = JNull
    /\ dataset = <<>>
    /\ error = NoError

\* a caller invokes generate_dataset(model, num_samples, column_types)
GenerateDataset(model, num_samples, column_types) ==
    /\ pc \in {"idle", "returned", "raised"}
    /\ calls < MaxCalls
    /\ calls' = calls + 1
    /\ call' = [model |-> model, num_samples |-> num_samples, column_types |-> column_types]
    /\ pc' = "format"
    /\ messages' = <<>>
    /\ requests' = <<>>
    /\ fault' = ""
    /\ out' = <<>>
    /\ generated' = JNull
    /\ dataset' = <<>>
    /\ error' = NoError
    /\ UNCHANGED <<args, self>>

\* line 72: messages = self._format_messages(model, num_samples, column_types)
DoFormatMessages ==
    /\ pc = "format"
    /\ LET r == FormatMessages(self, call.model, call.num_samples) IN
       /\ self' = r.gen
       /\ IF r.err # ""
          THEN /\ pc' = "raised"
               /\ error' = Raise(r.err, "", "format")
               /\ UNCHANGED messages
          ELSE /\ pc' = "complete"
               /\ messages' = r.messages
               /\ UNCHANGED error
    /\ UNCHANGED <<args, calls, call, requests, fault, out, generated, dataset>>

\* lines 74-80: the client answers the request with a completion
CompleteReturns(content) ==
    /\ pc = "complete"
    /\ requests' = Append(requests, Request(self, messages))
    /\ out' = content
    /\ pc' = "parse"
    /\ UNCHANGED <<args, self, calls, call, messages, fault, generated, dataset, error>>

\* Variant: the call is inside the try, so the client's failure is replaced by
\* LLMGenerationError.
CompleteRaisesWrapped(e) ==
    /\ pc = "complete"
    /\ requests' = Append(requests, Request(self, messages))
    /\ fault' = e
    /\ error' = Raise("LLMGenerationError", e, "client")
    /\ pc' = "raised"
    /\ UNCHANGED <<args, self, calls, call, messages, out, generated, dataset>>

\* Variant: a failed request is sent once more before the call gives up.
CompleteRaisesRetry(e) ==
    /\ pc = "complete"
    /\ requests' = Append(requests, Request(self, messages))
    /\ IF requests = <<>>
       THEN UNCHANGED <<fault, error, pc>>
       ELSE /\ fault' = e
            /\ error' = Raise(e, "", "client")
            /\ pc' = "raised"
    /\ UNCHANGED <<args, self, calls, call, messages, out, generated, dataset>>

\* lines 74-80: the client raises; nothing in generate_dataset catches it
CompleteRaises(e) ==
    /\ pc = "complete"
    /\ requests' = Append(requests, Request(self, messages))
    /\ fault' = e
    /\ error' = Raise(e, "", "client")
    /\ pc' = "raised"
    /\ UNCHANGED <<args, self, calls, call, messages, out, generated, dataset>>

\* line 82: generated = self._parse_output(out)
DoParseOutput ==
    /\ pc = "parse"
    /\ LET r == ParseOutput(self, out) IN
       IF r.err # NoError
       THEN /\ pc' = "raised"
            /\ error' = r.err
            /\ UNCHANGED generated
       ELSE /\ pc' = "dataset"
            /\ generated' = r.data
            /\ UNCHANGED error
    /\ UNCHANGED <<args, self, calls, call, messages, requests, fault, out, dataset>>

\* Variant: a number of records other than num_samples is a failure.
MakeDatasetStrict ==
    /\ pc = "dataset"
    /\ LET df == DataFrame(generated) IN
       IF df.err # "" \/ Len(df.rows) # call.num_samples
       THEN /\ pc' = "raised"
            /\ error' = Raise("LLMGenerationError", "", "dataset")
            /\ UNCHANGED dataset
       ELSE /\ pc' = "returned"
            /\ dataset' = <<Dataset(df.rows, call.model, call.column_types)>>
            /\ UNCHANGED error
    /\ UNCHANGED <<args, self, calls, call, messages, requests, fault, out, generated>>

\* lines 84-91: the dataset is built and returned
MakeDataset ==
    /\ pc = "dataset"
    /\ LET df == DataFrame(generated) IN
       IF df.err # ""
       THEN /\ pc' = "raised"
            /\ error' = Raise(df.err, "", "dataset")
            /\ UNCHANGED dataset
       ELSE /\ pc' = "returned"
            /\ dataset' = <<Dataset(df.rows, call.model, call.column_types)>>
            /\ UNCHANGED error
    /\ UNCHANGED <<args, self, calls, call, messages, requests, fault, out, generated>>

Next ==
    \/ \E m \in Models, n \in NumSamples, ct \in ColumnTypes : GenerateDataset(m, n, ct)
    \/ DoFormatMessages
    \/ \E c \in Contents : CompleteReturns(c)
    \/ \E e \in ClientErrors : CompleteRaises(e)
    \/ DoParseOutput
    \/ MakeDataset

Spec == Init /\ [][Next]_vars

(* ------------------------------ claims -------------------------------- *)

\* the parser has acted on the completion of the current call
Parsed == pc \in {"dataset", "returned"} \/ (pc = "raised" /\ error.origin \in {"parse", "dataset"})

OutputKey == self.class.output_key

\* the completion is JSON that does not hold the configured key at its top
MissingKey(content) ==
    /\ OutputKey # ""
    /\ Loads(content).ok
    /\ ~(Loads(content).val.t = "obj" /\ OutputKey \in Range(Loads(content).val.k))

NotJson(content) == ~Loads(content).ok

\* C1: a completion that is not well-formed JSON, or is JSON without the
\* configured top-level key, makes generate_dataset raise LLMGenerationError,
\* never the parser's own error.
C1_BadCompletionIsGenerationFailure ==
    (Parsed /\ (NotJson(out) \/ MissingKey(out)))
        => (pc = "raised" /\ error.type = "LLMGenerationError")

\* C2: a completion {"<key>": [r1, ..., rk]} makes generate_dataset succeed
\* with exactly the rows r1..rk in order, whatever num_samples was.
C2_RecordsRoundTrip ==
    \A rs \in RecordSeqs :
        (OutputKey # "" /\ out = Keyed(OutputKey, rs)) =>
            /\ pc # "raised"
            /\ pc \in {"dataset", "returned"} => generated = JArr(rs)
            /\ pc = "returned" => (Len(dataset) = 1 /\ dataset[1].rows = rs)

C2_Witness ==
    /\ pc = "returned"
    /\ out = Keyed("inputs", <<R2, R1>>)
    /\ call.num_samples = 3
    /\ dataset[1].rows = <<R2, R1>>

\* C3 as stated: every finished call has sent exactly one request.
C3_ExactlyOneRequest ==
    pc \in {"returned", "raised"} => Len(requests) = 1

\* C3 amended: a call sends at most one request, and exactly one unless it
\* failed while building the request; the request is answered before parsing
\* starts; a failed call has no dataset and takes no further step.
C3_OneRequestNoRetry ==
    [][ /\ Len(requests') <= 1
        /\ pc' \in {"parse", "dataset", "returned"} => Len(requests') = 1
        /\ pc' = "raised" =>
              /\ dataset' = <<>>
              /\ Len(requests') = (IF error'.origin = "format" THEN 0 ELSE 1)
        /\ pc' = "returned" => Len(dataset') = 1
        /\ pc = "raised" => (calls' = calls + 1 /\ pc' = "format" /\ requests' = <<>>)
      ]_vars

C3_Witness ==
    /\ calls = 2
    /\ pc = "raised"
    /\ error.origin = "parse"
    /\ Len(requests) = 1
    /\ dataset = <<>>

\* the prefix messages given at construction
GivenPrefix == IF args.prefix_messages.given THEN args.prefix_messages.v ELSE <<>>

\* the text an instruction is rendered to
Rendered == Format(args.prompt, 1, call.model, call.num_samples, self.languages).text

\* C4: every request carries the prefix messages given at construction, in
\* order, then exactly one user message with the rendered instruction; the
\* stored prefix messages never change.
C4_PrefixThenOneUserMessage ==
    /\ self.prefix_messages = GivenPrefix
    /\ \A i \in DOMAIN requests :
          requests[i].messages = GivenPrefix \o <<ChatMessage("user", Rendered)>>

C4_Witness ==
    /\ calls = 2
    /\ GivenPrefix = <<System, Assistant>>
    /\ Len(requests) = 1
    /\ Len(requests[1].messages) = 3
    /\ requests[1].messages[3].role = "user"

\* the clause as rendered for the generator's languages
Clause == Format(LANGUAGE_REQUIREMENT_PROMPT, 1, call.model, call.num_samples, self.languages).text

ContainsClause(content) ==
    \E i \in 1..(Len(content) - Len(Clause) + 1) :
        SubSeq(content, i, i + Len(Clause) - 1) = Clause

\* C5: the rendered prompt holds the multi-language clause exactly when more
\* than one language is configured.
C5_ClauseIffSeveralLanguages ==
    \A i \in DOMAIN requests :
        LET m == requests[i].messages IN
        ContainsClause(m[Len(m)].content) <=> (Len(self.languages) > 1)

\* C6: a failure of llm_client.complete reaches the caller as it was raised;
\* nothing is parsed and no dataset is built.
C6_ClientFailurePassesThrough ==
    fault # "" =>
        /\ pc = "raised"
        /\ error = Raise(fault, "", "client")
        /\ out = <<>>
        /\ generated = JNull
        /\ dataset = <<>>

C6_Witness ==
    /\ fault = "KeyError"
    /\ error.type = "KeyError"
    /\ Len(requests) = 1

\* the template names a field that str.format is given no value for
MissingPlaceholder(template) ==
    \E i \in DOMAIN template :
        template[i].kind = "field" /\ template[i].name \notin {"model", "num_samples", "languages"}

\* C7: a template with a placeholder that has no value makes generate_dataset
\* fail while building the request, with an error other than
\* LLMGenerationError, before any request is sent and with no dataset.
C7_MissingPlaceholderFailsFast ==
    (MissingPlaceholder(args.prompt) /\ pc \notin {"idle", "format"}) =>
        /\ pc = "raised"
        /\ error.origin = "format"
        /\ error.type = "KeyError"
        /\ error.type # "LLMGenerationError"
        /\ requests = <<>>
        /\ dataset = <<>>

C7_Witness ==
    /\ args.prompt = DEFAULT_GENERATE_INPUTS_PROMPT
    /\ calls = 2
    /\ pc = "raised"
    /\ error.type = "KeyError"

\* C8: every request carries the temperature and seed fixed at construction
\* (the defaults only where none was given), format "json" and the concrete
\* class name as caller_id, in every call.
C8_RequestParametersFixed ==
    \A i \in DOMAIN requests :
        /\ requests[i].temperature =
              (IF args.llm_temperature.given THEN args.llm_temperature.v ELSE 5)
        /\ requests[i].seed = (IF args.llm_seed.given THEN args.llm_seed.v ELSE 1729)
        /\ requests[i].format = "json"
        /\ requests[i].caller_id = args.class.name

C8_Witness ==
    /\ calls = 2
    /\ args.llm_temperature = Some(0)
    /\ Len(requests) = 1
    /\ requests[1].temperature = 0
    /\ requests[1].caller_id = "SamplesGenerator"

\* C9: a returned dataset is named "Synthetic Test Dataset for " + model.name.
C9_DatasetName ==
    pc = "returned" =>
        /\ Len(dataset) = 1
        /\ dataset[1].name = "Synthetic Test Dataset for " \o call.model.name

C9_Witness ==
    /\ pc = "returned"
    /\ call.model.name = ""
    /\ dataset[1].name = "Synthetic Test Dataset for "

\* C10: a completion that is well-formed JSON but not an object makes
\* generate_dataset raise LLMGenerationError and nothing else.
C10_NonObjectIsGenerationFailure ==
    (Parsed /\ OutputKey # "" /\ Loads(out).ok /\ Loads(out).val.t # "obj")
        => (pc = "raised" /\ error.type = "LLMGenerationError")

====
